---- MODULE Spec2Model ----
(***************************************************************************)
(* A model of the latent-ODE forecaster's training loop (src/train.py),    *)
(* forward pass (src/mr_node/model/model.py), evaluator (src/test_in.py)   *)
(* and job identifier (src/train.py, get_job_id).                          *)
(*                                                                         *)
(* Floating-point numbers are modelled as records: a finite value is an    *)
(* integer number of units, and the two non-finite values a loss can take  *)
(* (+inf, NaN) are kept apart, with IEEE-754 addition, division and        *)
(* comparison.  Rounding of finite values is not modelled.                 *)
(***************************************************************************)
EXTENDS Integers, Sequences, FiniteSets, TLC

(***************************************************************************)
(* Bounds of the model.                                                    *)
(***************************************************************************)
\* largest hyperparams.num_epochs explored
MaxEpochs == 3
\* train_data.num_windows
NumTrainWindows == 2
\* valid_data.num_windows
NumValidWindows == 2

\* One finite loss level is Scale units, so that a total of window losses
\* divides exactly by either Dataset's num_windows.
Scale == NumTrainWindows * NumValidWindows

(***************************************************************************)
(* Floats.                                                                 *)
(***************************************************************************)
Fin(n) == [k |-> "fin", v |-> n]
Inf == [k |-> "inf", v |-> 0]
NaN == [k |-> "nan", v |-> 0]
\* Optional[float] = None
None == [k |-> "none", v |-> 0]

IsFinite(a) == a.k = "fin"

\* a + b on floats (no -inf arises: a loss is bounded below)
FAdd(a, b) ==
    IF a.k = "nan" \/ b.k = "nan" THEN NaN
    ELSE IF a.k = "inf" \/ b.k = "inf" THEN Inf
    ELSE Fin(a.v + b.v)

\* a / n for a positive integer n
FDiv(a, n) == IF a.k = "fin" THEN Fin(a.v \div n) ELSE a

\* a < b on floats: every comparison with NaN is False
FLt(a, b) ==
    /\ a.k # "nan"
    /\ b.k # "nan"
    /\ \/ a.k = "fin" /\ b.k = "inf"
       \/ a.k = "fin" /\ b.k = "fin" /\ a.v < b.v

\* The losses one training window can produce: a finite value, or +inf when
\* the squared error overflows.
TrainLossVals == {Fin(Scale), Inf}
\* The losses one validation window can produce.
ValidLossVals == {Fin(0), Fin(Scale), Inf, NaN}

(***************************************************************************)
(* State of train() (src/train.py).                                        *)
(***************************************************************************)
VARIABLES
    pc,                     \* position in train()
    num_epochs,             \* hyperparams.num_epochs
    epoch,                  \* loop variable of line 145
    i,                      \* window index of the running enumerate()
    train_total_loss,
    valid_total_loss,
    all_train_avg_loss,
    all_valid_avg_loss,
    valid_avg_loss,
    lowest_valid_avg_loss,
    odefunc_data,           \* model.odefunc.data: the live Dataset
    grad_enabled,           \* FALSE inside the torch.no_grad() block
    grads,                  \* the parameters' .grad: "none", "zero", "computed"
    opt_steps,              \* optimizer.step() calls so far: the parameters' version
    backward_calls,         \* backward() calls so far
    model_file,             \* what torch.save last wrote to model_filepath
    save_log,               \* epochs of the "Saving model at epoch" log lines
    window_ops,             \* operations applied to the current training window
    train_seen,             \* training windows processed in this epoch, in order
    valid_seen,             \* validation windows processed in this epoch, in order
    valid_passes,           \* validation passes completed
    fwd_log,                \* per forward call of this epoch: caller and live Dataset
    epoch_loss_sum          \* window losses computed since the epoch began,
                            \* summed per pass

trainVars == <<pc, num_epochs, epoch, i, train_total_loss, valid_total_loss,
               all_train_avg_loss, all_valid_avg_loss, valid_avg_loss,
               lowest_valid_avg_loss, odefunc_data, grad_enabled, grads,
               opt_steps, backward_calls, model_file, save_log, window_ops,
               train_seen, valid_seen, valid_passes, fwd_log,
               epoch_loss_sum>>

\* train()'s variables other than the live Dataset reference
trainRest == <<pc, num_epochs, epoch, i, train_total_loss, valid_total_loss,
               all_train_avg_loss, all_valid_avg_loss, valid_avg_loss,
               lowest_valid_avg_loss, grad_enabled, grads,
               opt_steps, backward_calls, model_file, save_log, window_ops,
               train_seen, valid_seen, valid_passes, fwd_log,
               epoch_loss_sum>>

(***************************************************************************)
(* State of Model.forward (src/mr_node/model/model.py).                    *)
(***************************************************************************)
VARIABLES
    hyperparams,            \* self.hyperparams: hidden_dims, output_dims, solver
    fpc,                    \* position in forward()
    call,                   \* the running call: its arguments and random draws
    h,                      \* the encoder's final hidden state
    odefunc_start_time,     \* self.odefunc.start_time
    zero_times,             \* the time vector handed to odeint
    queries,                \* relative times at which odeint evaluated odefunc
    hs,                     \* the integrated latent states
    out,                    \* what forward() returned
    prev                    \* the call completed before the running one,
                            \* kept when the running one repeats its arguments

fwdVars == <<hyperparams, fpc, call, h, odefunc_start_time, zero_times,
             queries, hs, out, prev>>

(***************************************************************************)
(* State of the evaluator, test() (src/test_in.py).                        *)
(***************************************************************************)
VARIABLES
    epc,                    \* position in test()
    train_stats,            \* train_data.infect_means, train_data.infect_stds
    test_stats,             \* test_data.infect_means, test_data.infect_stds
    test_i,                 \* window index of the enumerate() of line 121
    infect_hat,             \* the model's normalized prediction
    gt_infect_window,       \* the window's normalized target
    pred_infect,
    gt_infect,
    total_mse_loss,
    total_mle_loss,
    drop_rate,              \* args.drop_rate, in tenths
    gt_steps,               \* GT_STEPS_FOR_EXTRAPOLATION, the test window length
    indexes_to_keep,        \* result of get_indexes_to_keep for the window
    eval_call,              \* arguments of best_model(...) for the window
    eval_out                \* what best_model(...) returned, per timestamp

evalVars == <<epc, train_stats, test_stats, test_i, infect_hat,
              gt_infect_window, pred_infect, gt_infect, total_mse_loss,
              total_mle_loss, drop_rate, gt_steps, indexes_to_keep,
              eval_call, eval_out>>

(***************************************************************************)
(* Two runs' Hyperparameters and their job identifiers (src/train.py).     *)
(***************************************************************************)
VARIABLES
    jpc,                    \* "args", "configured", "named"
    job_args,               \* the parsed arguments of two runs
    job_hyperparams,        \* their Hyperparameters
    job_ids                 \* their job_id

jobVars == <<jpc, job_args, job_hyperparams, job_ids>>

vars == <<trainVars, fwdVars, evalVars, jobVars>>

\* what train() never touches
otherVars == <<fwdVars, evalVars, jobVars>>

\* Model(data=train_data, ...) and the assignments of lines 142-143.
TrainInit ==
    /\ pc = "epoch_head"
    /\ num_epochs \in 1..MaxEpochs
    /\ epoch = 0
    /\ i = 0
    /\ train_total_loss = Fin(0)
    /\ valid_total_loss = Fin(0)
    /\ all_train_avg_loss = <<>>
    /\ all_valid_avg_loss = <<>>
    /\ valid_avg_loss = None
    /\ lowest_valid_avg_loss = None
    /\ odefunc_data = "train_data"
    /\ grad_enabled = TRUE
    /\ grads = "none"
    /\ opt_steps = 0
    /\ backward_calls = 0
    /\ model_file = [epoch |-> -1, params |-> -1]
    /\ save_log = <<>>
    /\ window_ops = <<>>
    /\ train_seen = <<>>
    /\ valid_seen = <<>>
    /\ valid_passes = 0
    /\ fwd_log = <<>>
    /\ epoch_loss_sum = [train |-> Fin(0), valid |-> Fin(0)]

\* for epoch in range(num_epochs): train_total_loss = 0.0
EpochHead ==
    /\ pc = "epoch_head"
    /\ epoch < num_epochs
    /\ train_total_loss' = Fin(0)
    /\ i' = 0
    /\ train_seen' = <<>>
    /\ valid_seen' = <<>>
    /\ fwd_log' = <<>>
    /\ epoch_loss_sum' = [train |-> Fin(0), valid |-> Fin(0)]
    /\ pc' = "train_head"
    /\ UNCHANGED <<num_epochs, epoch, valid_total_loss, all_train_avg_loss,
                   all_valid_avg_loss, valid_avg_loss, lowest_valid_avg_loss,
                   odefunc_data, grad_enabled, grads, opt_steps, backward_calls,
                   model_file, save_log, window_ops, valid_passes>>
    /\ UNCHANGED otherVars

\* for i, (...) in enumerate(train_data.windows())
TrainHead ==
    /\ pc = "train_head"
    /\ IF i < NumTrainWindows
         THEN pc' = "zero_grad"
         ELSE pc' = "train_avg"
    /\ window_ops' = <<>>
    /\ UNCHANGED <<num_epochs, epoch, i, train_total_loss, valid_total_loss,
                   all_train_avg_loss, all_valid_avg_loss, valid_avg_loss,
                   lowest_valid_avg_loss, odefunc_data, grad_enabled, grads,
                   opt_steps, backward_calls, model_file, save_log, train_seen,
                   valid_seen, valid_passes, fwd_log>>
    /\ UNCHANGED epoch_loss_sum
    /\ UNCHANGED otherVars

\* optimizer.zero_grad()
ZeroGrad ==
    /\ pc = "zero_grad"
    /\ grads' = "zero"
    /\ window_ops' = Append(window_ops, "zero_grad")
    /\ pc' = "train_forward"
    /\ UNCHANGED <<num_epochs, epoch, i, train_total_loss, valid_total_loss,
                   all_train_avg_loss, all_valid_avg_loss, valid_avg_loss,
                   lowest_valid_avg_loss, odefunc_data, grad_enabled,
                   opt_steps, backward_calls, model_file, save_log, train_seen,
                   valid_seen, valid_passes, fwd_log>>
    /\ UNCHANGED epoch_loss_sum
    /\ UNCHANGED otherVars

\* infect_mu = model(time_window=..., weather_window=..., infect_window=...)
TrainForward ==
    /\ pc = "train_forward"
    /\ fwd_log' = Append(fwd_log, [caller |-> "train", window |-> i,
                                    data |-> odefunc_data])
    /\ window_ops' = Append(window_ops, "forward")
    /\ pc' = "train_loss"
    /\ UNCHANGED <<num_epochs, epoch, i, train_total_loss, valid_total_loss,
                   all_train_avg_loss, all_valid_avg_loss, valid_avg_loss,
                   lowest_valid_avg_loss, odefunc_data, grad_enabled, grads,
                   opt_steps, backward_calls, model_file, save_log, train_seen,
                   valid_seen, valid_passes>>
    /\ UNCHANGED epoch_loss_sum
    /\ UNCHANGED otherVars

\* train_total_loss += train_loss.item()
AccumulateTrain(total, loss) == FAdd(total, loss)

\* train_loss = -infect_dist.log_prob(...).mean(); train_total_loss += ...
TrainLoss ==
    /\ pc = "train_loss"
    /\ \E train_loss \in TrainLossVals :
          /\ train_total_loss' = AccumulateTrain(train_total_loss, train_loss)
          /\ epoch_loss_sum' =
                [epoch_loss_sum EXCEPT !.train = FAdd(@, train_loss)]
    /\ window_ops' = Append(window_ops, "loss")
    /\ pc' = "backward"
    /\ UNCHANGED <<num_epochs, epoch, i, valid_total_loss,
                   all_train_avg_loss, all_valid_avg_loss, valid_avg_loss,
                   lowest_valid_avg_loss, odefunc_data, grad_enabled, grads,
                   opt_steps, backward_calls, model_file, save_log, train_seen,
                   valid_seen, valid_passes, fwd_log>>
    /\ UNCHANGED otherVars

\* train_loss.backward()
Backward ==
    /\ pc = "backward"
    /\ grad_enabled
    /\ grads' = "computed"
    /\ backward_calls' = backward_calls + 1
    /\ window_ops' = Append(window_ops, "backward")
    /\ pc' = "opt_step"
    /\ UNCHANGED <<num_epochs, epoch, i, train_total_loss, valid_total_loss,
                   all_train_avg_loss, all_valid_avg_loss, valid_avg_loss,
                   lowest_valid_avg_loss, odefunc_data, grad_enabled,
                   opt_steps, model_file, save_log, train_seen,
                   valid_seen, valid_passes, fwd_log>>
    /\ UNCHANGED epoch_loss_sum
    /\ UNCHANGED otherVars

\* Mutant of OptimizerStep: the step is taken after the last window only
OptimizerStep_PerEpoch ==
    /\ pc = "opt_step"
    /\ opt_steps' = IF i = NumTrainWindows - 1 THEN opt_steps + 1 ELSE opt_steps
    /\ window_ops' = IF i = NumTrainWindows - 1
                       THEN Append(window_ops, "step") ELSE window_ops
    /\ train_seen' = Append(train_seen, i)
    /\ i' = i + 1
    /\ pc' = "train_head"
    /\ UNCHANGED <<num_epochs, epoch, train_total_loss, valid_total_loss,
                   all_train_avg_loss, all_valid_avg_loss, valid_avg_loss,
                   lowest_valid_avg_loss, odefunc_data, grad_enabled, grads,
                   backward_calls, model_file, save_log,
                   valid_seen, valid_passes, fwd_log>>
    /\ UNCHANGED epoch_loss_sum
    /\ UNCHANGED otherVars

\* optimizer.step(), then the next window of the enumerate()
OptimizerStep ==
    /\ pc = "opt_step"
    /\ opt_steps' = opt_steps + 1
    /\ window_ops' = Append(window_ops, "step")
    /\ train_seen' = Append(train_seen, i)
    /\ i' = i + 1
    /\ pc' = "train_head"
    /\ UNCHANGED <<num_epochs, epoch, train_total_loss, valid_total_loss,
                   all_train_avg_loss, all_valid_avg_loss, valid_avg_loss,
                   lowest_valid_avg_loss, odefunc_data, grad_enabled, grads,
                   backward_calls, model_file, save_log,
                   valid_seen, valid_passes, fwd_log>>
    /\ UNCHANGED epoch_loss_sum
    /\ UNCHANGED otherVars

\* train_avg_loss = train_total_loss / train_data.num_windows; append
TrainAvg ==
    /\ pc = "train_avg"
    /\ all_train_avg_loss' =
          Append(all_train_avg_loss, FDiv(train_total_loss, NumTrainWindows))
    /\ pc' = "valid_init"
    /\ UNCHANGED <<num_epochs, epoch, i, train_total_loss, valid_total_loss,
                   all_valid_avg_loss, valid_avg_loss,
                   lowest_valid_avg_loss, odefunc_data, grad_enabled, grads,
                   opt_steps, backward_calls, model_file, save_log, window_ops,
                   train_seen, valid_seen, valid_passes, fwd_log>>
    /\ UNCHANGED epoch_loss_sum
    /\ UNCHANGED otherVars

\* Mutant of ValidInit: the running total is not reset before the pass
ValidInit_KeepsTotal ==
    /\ pc = "valid_init"
    /\ grad_enabled' = FALSE
    /\ i' = 0
    /\ pc' = "valid_head"
    /\ UNCHANGED <<num_epochs, epoch, train_total_loss, valid_total_loss,
                   all_train_avg_loss, all_valid_avg_loss, valid_avg_loss,
                   lowest_valid_avg_loss, odefunc_data, grads,
                   opt_steps, backward_calls, model_file, save_log, window_ops,
                   train_seen, valid_seen, valid_passes, fwd_log>>
    /\ UNCHANGED epoch_loss_sum
    /\ UNCHANGED otherVars

\* valid_total_loss = 0; with torch.no_grad():
ValidInit ==
    /\ pc = "valid_init"
    /\ valid_total_loss' = Fin(0)
    /\ grad_enabled' = FALSE
    /\ i' = 0
    /\ pc' = "valid_head"
    /\ UNCHANGED <<num_epochs, epoch, train_total_loss,
                   all_train_avg_loss, all_valid_avg_loss, valid_avg_loss,
                   lowest_valid_avg_loss, odefunc_data, grads,
                   opt_steps, backward_calls, model_file, save_log, window_ops,
                   train_seen, valid_seen, valid_passes, fwd_log>>
    /\ UNCHANGED epoch_loss_sum
    /\ UNCHANGED otherVars

\* for i, (...) in enumerate(valid_data.windows()); leaving the loop leaves
\* the torch.no_grad() block
ValidHead ==
    /\ pc = "valid_head"
    /\ IF i < NumValidWindows
         THEN /\ pc' = "valid_swap"
              /\ UNCHANGED <<grad_enabled, valid_passes>>
         ELSE /\ pc' = "valid_avg"
              /\ grad_enabled' = TRUE
              /\ valid_passes' = valid_passes + 1
    /\ UNCHANGED <<num_epochs, epoch, i, train_total_loss, valid_total_loss,
                   all_train_avg_loss, all_valid_avg_loss, valid_avg_loss,
                   lowest_valid_avg_loss, odefunc_data, grads,
                   opt_steps, backward_calls, model_file, save_log, window_ops,
                   train_seen, valid_seen, fwd_log>>
    /\ UNCHANGED epoch_loss_sum
    /\ UNCHANGED otherVars

\* model.odefunc.data = valid_data
ValidSwap ==
    /\ pc = "valid_swap"
    /\ odefunc_data' = "valid_data"
    /\ pc' = "valid_forward"
    /\ UNCHANGED <<num_epochs, epoch, i, train_total_loss, valid_total_loss,
                   all_train_avg_loss, all_valid_avg_loss, valid_avg_loss,
                   lowest_valid_avg_loss, grad_enabled, grads,
                   opt_steps, backward_calls, model_file, save_log, window_ops,
                   train_seen, valid_seen, valid_passes, fwd_log>>
    /\ UNCHANGED epoch_loss_sum
    /\ UNCHANGED otherVars

\* valid_infect_mu = model(time_window=..., weather_window=..._beginning, ...)
ValidForward ==
    /\ pc = "valid_forward"
    /\ fwd_log' = Append(fwd_log, [caller |-> "valid", window |-> i,
                                    data |-> odefunc_data])
    /\ pc' = "valid_restore"
    /\ UNCHANGED <<num_epochs, epoch, i, train_total_loss, valid_total_loss,
                   all_train_avg_loss, all_valid_avg_loss, valid_avg_loss,
                   lowest_valid_avg_loss, odefunc_data, grad_enabled, grads,
                   opt_steps, backward_calls, model_file, save_log, window_ops,
                   train_seen, valid_seen, valid_passes>>
    /\ UNCHANGED epoch_loss_sum
    /\ UNCHANGED otherVars

\* Mutant of ValidRestore: the training Dataset is not given back
ValidRestore_Forgotten ==
    /\ pc = "valid_restore"
    /\ pc' = "valid_loss"
    /\ UNCHANGED <<num_epochs, epoch, i, train_total_loss, valid_total_loss,
                   all_train_avg_loss, all_valid_avg_loss, valid_avg_loss,
                   lowest_valid_avg_loss, odefunc_data, grad_enabled, grads,
                   opt_steps, backward_calls, model_file, save_log, window_ops,
                   train_seen, valid_seen, valid_passes, fwd_log>>
    /\ UNCHANGED epoch_loss_sum
    /\ UNCHANGED otherVars

\* model.odefunc.data = train_data
ValidRestore ==
    /\ pc = "valid_restore"
    /\ odefunc_data' = "train_data"
    /\ pc' = "valid_loss"
    /\ UNCHANGED <<num_epochs, epoch, i, train_total_loss, valid_total_loss,
                   all_train_avg_loss, all_valid_avg_loss, valid_avg_loss,
                   lowest_valid_avg_loss, grad_enabled, grads,
                   opt_steps, backward_calls, model_file, save_log, window_ops,
                   train_seen, valid_seen, valid_passes, fwd_log>>
    /\ UNCHANGED epoch_loss_sum
    /\ UNCHANGED otherVars

\* valid_total_loss += valid_loss.item()
AccumulateValid(total, loss) == FAdd(total, loss)

\* Mutant of ValidLoss: the training loop's optimizer.step() copied into the
\* validation loop
ValidLoss_WithStep ==
    /\ pc = "valid_loss"
    /\ \E valid_loss \in ValidLossVals :
          /\ valid_total_loss' = AccumulateValid(valid_total_loss, valid_loss)
          /\ epoch_loss_sum' =
                [epoch_loss_sum EXCEPT !.valid = FAdd(@, valid_loss)]
    /\ valid_seen' = Append(valid_seen, i)
    /\ i' = i + 1
    /\ opt_steps' = opt_steps + 1
    /\ pc' = "valid_head"
    /\ UNCHANGED <<num_epochs, epoch, train_total_loss,
                   all_train_avg_loss, all_valid_avg_loss, valid_avg_loss,
                   lowest_valid_avg_loss, odefunc_data, grad_enabled, grads,
                   backward_calls, model_file, save_log, window_ops,
                   train_seen, valid_passes, fwd_log>>
    /\ UNCHANGED otherVars

\* valid_loss = -valid_infect_dist.log_prob(...).mean(); valid_total_loss += ...
ValidLoss ==
    /\ pc = "valid_loss"
    /\ \E valid_loss \in ValidLossVals :
          /\ valid_total_loss' = AccumulateValid(valid_total_loss, valid_loss)
          /\ epoch_loss_sum' =
                [epoch_loss_sum EXCEPT !.valid = FAdd(@, valid_loss)]
    /\ valid_seen' = Append(valid_seen, i)
    /\ i' = i + 1
    /\ pc' = "valid_head"
    /\ UNCHANGED <<num_epochs, epoch, train_total_loss,
                   all_train_avg_loss, all_valid_avg_loss, valid_avg_loss,
                   lowest_valid_avg_loss, odefunc_data, grad_enabled, grads,
                   opt_steps, backward_calls, model_file, save_log, window_ops,
                   train_seen, valid_passes, fwd_log>>
    /\ UNCHANGED otherVars

\* valid_avg_loss = valid_total_loss / valid_data.num_windows; append
ValidAvg ==
    /\ pc = "valid_avg"
    /\ valid_avg_loss' = FDiv(valid_total_loss, NumValidWindows)
    /\ all_valid_avg_loss' = Append(all_valid_avg_loss, valid_avg_loss')
    /\ pc' = "checkpoint"
    /\ UNCHANGED <<num_epochs, epoch, i, train_total_loss, valid_total_loss,
                   all_train_avg_loss,
                   lowest_valid_avg_loss, odefunc_data, grad_enabled, grads,
                   opt_steps, backward_calls, model_file, save_log, window_ops,
                   train_seen, valid_seen, valid_passes, fwd_log>>
    /\ UNCHANGED epoch_loss_sum
    /\ UNCHANGED otherVars

\* Mutant of Improves: the comparison written <= instead of <
Improves_OrEqual(lowest, avg) ==
    lowest = None \/ FLt(avg, lowest) \/ (IsFinite(avg) /\ avg = lowest)

\* lowest_valid_avg_loss is None or valid_avg_loss < lowest_valid_avg_loss
Improves(lowest, avg) == lowest = None \/ FLt(avg, lowest)

\* if ...: lowest_valid_avg_loss = valid_avg_loss; log(...); torch.save(...)
\* and the loop moves on to the next epoch
Checkpoint ==
    /\ pc = "checkpoint"
    /\ IF Improves(lowest_valid_avg_loss, valid_avg_loss)
         THEN /\ lowest_valid_avg_loss' = valid_avg_loss
              /\ save_log' = Append(save_log, epoch)
              /\ model_file' = [epoch |-> epoch, params |-> opt_steps]
         ELSE UNCHANGED <<lowest_valid_avg_loss, save_log, model_file>>
    /\ epoch' = epoch + 1
    /\ pc' = "epoch_head"
    /\ UNCHANGED <<num_epochs, i, train_total_loss, valid_total_loss,
                   all_train_avg_loss, all_valid_avg_loss, valid_avg_loss,
                   odefunc_data, grad_enabled, grads,
                   opt_steps, backward_calls, window_ops,
                   train_seen, valid_seen, valid_passes, fwd_log>>
    /\ UNCHANGED epoch_loss_sum
    /\ UNCHANGED otherVars

\* the loop of line 145 is exhausted: plot the curves, log("Done")
Finish ==
    /\ pc = "epoch_head"
    /\ epoch >= num_epochs
    /\ pc' = "done"
    /\ UNCHANGED <<num_epochs, epoch, i, train_total_loss, valid_total_loss,
                   all_train_avg_loss, all_valid_avg_loss, valid_avg_loss,
                   lowest_valid_avg_loss, odefunc_data, grad_enabled, grads,
                   opt_steps, backward_calls, model_file, save_log, window_ops,
                   train_seen, valid_seen, valid_passes, fwd_log>>
    /\ UNCHANGED epoch_loss_sum
    /\ UNCHANGED otherVars

\* model(...) raises (the integrator fails, or Normal rejects a non-finite
\* mean): nothing in train() catches it, the run ends there
ForwardRaises ==
    /\ pc \in {"train_forward", "valid_forward"}
    /\ pc' = "raised"
    /\ UNCHANGED <<num_epochs, epoch, i, train_total_loss, valid_total_loss,
                   all_train_avg_loss, all_valid_avg_loss, valid_avg_loss,
                   lowest_valid_avg_loss, odefunc_data, grad_enabled, grads,
                   opt_steps, backward_calls, model_file, save_log, window_ops,
                   train_seen, valid_seen, valid_passes, fwd_log>>
    /\ UNCHANGED epoch_loss_sum
    /\ UNCHANGED otherVars

(***************************************************************************)
(* Model.forward (src/mr_node/model/model.py).  Tensors are kept as the    *)
(* terms that produce them: what a value was computed from, and its sizes. *)
(***************************************************************************)
\* most rows of covariates/targets handed to the encoder
MaxRows == 2
\* most entries of a time_window
MaxWindow == 3
\* how far past the last requested time an adaptive step can end
MaxOvershoot == 1

\* output_dims=1 in get_hyperparameters
OutputDims == 1

Datasets == {"train_data", "valid_data"}
\* first timestamps of the windows explored
StartTimes == {0, 5}
\* a fixed-step and an adaptive-step method of the integrator
Solvers == {"euler", "dopri5"}
\* values of one draw of the random source
Draws == {0, 1}

\* a Window's time vector: consecutive timestamps from first
TimeWindow(first, len) == [k \in 1..len |-> first + k - 1]
\* weather_window and infect_window: rows of one Window, row k holding the
\* covariates and the target of position k
WeatherRows(n) == [k \in 1..n |-> [weather |-> k]]
InfectRows(n) == [k \in 1..n |-> [infect |-> 2 * k]]

\* what the forward pass is idle on
NoCall == [weather_window |-> <<>>, infect_window |-> <<>>,
           time_window |-> <<>>, h_init |-> 0, mask |-> 0]
NoState == [dims |-> 0, input |-> <<>>, h_init |-> 0, mask |-> 0]
NoPrev == [call |-> NoCall, data |-> "train_data", returned |-> FALSE,
           out |-> <<>>]

\* torch.cat((weather_window, infect_window), dim=2)
Cat(weather, infect) ==
    [k \in 1..Len(weather) |->
        [weather |-> weather[k].weather, infect |-> infect[k].infect]]

\* data_window.flip(0)
Flip(rows) == [k \in 1..Len(rows) |-> rows[Len(rows) + 1 - k]]

\* self.encoder(reversed_data_window, h_init): the final hidden state, of
\* hidden_dims entries, of a recurrent encoder with dropout between layers
Encoder(reversed, h_init, mask) ==
    [dims |-> hyperparams.hidden_dims, input |-> reversed,
     h_init |-> h_init, mask |-> mask]

\* the runs torchdiffeq.odeint can make over the time vector t: the times
\* at which it evaluates the vector field.  A fixed-step method evaluates
\* it at the start of each interval of t; an adaptive method chooses its
\* own steps and does not clip the last one to t[-1].
Odeint(method, t) ==
    LET grid == {t[k] : k \in 1..(Len(t) - 1)}
    IN  IF method = "euler"
          THEN {grid}
          ELSE {grid \cup {t[Len(t)] + over} : over \in 0..MaxOvershoot}

\* the latent state at each entry of t, integrated from h0 with the
\* covariates the vector field looks up in data at start + t
LatentStates(h0, data, start, t) ==
    [k \in 1..Len(t) |-> [h0 |-> h0, data |-> data, at |-> start + t[k]]]

\* self.decoder(hs): each latent state mapped to output_dims values
Decoder(states) ==
    [k \in 1..Len(states) |->
        [dims |-> hyperparams.output_dims, from |-> states[k]]]

FwdInit ==
    /\ hyperparams \in [hidden_dims : {1, 2}, output_dims : {OutputDims},
                        solver : Solvers]
    /\ fpc = "idle"
    /\ call = NoCall
    /\ h = NoState
    /\ odefunc_start_time \in StartTimes
    /\ zero_times = <<>>
    /\ queries = {}
    /\ hs = <<>>
    /\ out = <<>>
    /\ prev = NoPrev

\* the caller assigns model.odefunc.data between two calls
AssignData ==
    /\ fpc \in {"idle", "returned"}
    /\ \E d \in Datasets : d # odefunc_data /\ odefunc_data' = d
    /\ UNCHANGED <<trainRest, fwdVars>>
    /\ UNCHANGED <<evalVars, jobVars>>

\* forward(weather_window, infect_window, time_window), lines 53-54: the
\* arguments are bound and the encoder's input is built.  The call before
\* is remembered when this one repeats its arguments.
ForwardBegin ==
    /\ fpc \in {"idle", "returned"}
    /\ \E rows \in 1..MaxRows, first \in StartTimes, len \in 1..MaxWindow :
          call' = [weather_window |-> WeatherRows(rows),
                   infect_window |-> InfectRows(rows),
                   time_window |-> TimeWindow(first, len),
                   h_init |-> 0, mask |-> 0]
    /\ prev' = IF /\ fpc = "returned"
                  /\ call'.weather_window = call.weather_window
                  /\ call'.infect_window = call.infect_window
                  /\ call'.time_window = call.time_window
                 THEN [call |-> call, data |-> hs[1].data,
                       returned |-> TRUE, out |-> out]
                 ELSE NoPrev
    /\ h' = NoState
    /\ zero_times' = <<>>
    /\ queries' = {}
    /\ hs' = <<>>
    /\ out' = <<>>
    /\ fpc' = "begun"
    /\ UNCHANGED <<trainVars, hyperparams, odefunc_start_time>>
    /\ UNCHANGED <<evalVars, jobVars>>

\* lines 59-60: h_init = torch.randn(...); _, h = self.encoder(reversed, h_init)
\* The encoder is in training mode: it draws its dropout mask.
ForwardEncode ==
    /\ fpc = "begun"
    /\ \E h_init \in Draws, mask \in Draws :
          /\ call' = [call EXCEPT !.h_init = h_init, !.mask = mask]
          /\ h' = Encoder(Flip(Cat(call.weather_window, call.infect_window)),
                          h_init, mask)
    /\ fpc' = "encoded"
    /\ UNCHANGED <<trainVars, hyperparams, odefunc_start_time, zero_times,
                   queries, hs, out, prev>>
    /\ UNCHANGED <<evalVars, jobVars>>

\* Mutant of ForwardZeroTime: the time vector is shifted by the start_time
\* the vector field still holds, which is replaced only afterwards
ForwardZeroTime_SubtractsOld ==
    /\ fpc = "encoded"
    /\ IF Len(call.time_window) = 1
         THEN /\ fpc' = "raised"
              /\ UNCHANGED <<odefunc_start_time, zero_times>>
         ELSE /\ odefunc_start_time' = call.time_window[1]
              /\ zero_times' =
                    [k \in 1..Len(call.time_window) |->
                        call.time_window[k] - odefunc_start_time]
              /\ fpc' = "zeroed"
    /\ UNCHANGED <<trainVars, hyperparams, call, h, queries, hs, out, prev>>
    /\ UNCHANGED <<evalVars, jobVars>>

\* lines 63-69: time_window.squeeze() of a one-entry window is a scalar,
\* which time_window[0] cannot index; otherwise the first timestamp
\* becomes odefunc.start_time and is subtracted from the time vector
ForwardZeroTime ==
    /\ fpc = "encoded"
    /\ IF Len(call.time_window) = 1
         THEN /\ fpc' = "raised"
              /\ UNCHANGED <<odefunc_start_time, zero_times>>
         ELSE /\ odefunc_start_time' = call.time_window[1]
              /\ zero_times' =
                    [k \in 1..Len(call.time_window) |->
                        call.time_window[k] - call.time_window[1]]
              /\ fpc' = "zeroed"
    /\ UNCHANGED <<trainVars, hyperparams, call, h, queries, hs, out, prev>>
    /\ UNCHANGED <<evalVars, jobVars>>

\* Mutant of ForwardIntegrate: the integration runs over as many times as
\* the encoder was given rows
ForwardIntegrate_OverRows ==
    /\ fpc = "zeroed"
    /\ \E run \in Odeint(hyperparams.solver, zero_times) : queries' = run
    /\ hs' = LatentStates(h, odefunc_data, odefunc_start_time,
                          SubSeq(zero_times, 1, Len(call.weather_window)))
    /\ fpc' = "integrated"
    /\ UNCHANGED <<trainVars, hyperparams, call, h, odefunc_start_time,
                   zero_times, out, prev>>
    /\ UNCHANGED <<evalVars, jobVars>>

\* lines 73-80: hs = torchdiffeq.odeint(self.odefunc, h, time_window, ...)
ForwardIntegrate ==
    /\ fpc = "zeroed"
    /\ \E run \in Odeint(hyperparams.solver, zero_times) : queries' = run
    /\ hs' = LatentStates(h, odefunc_data, odefunc_start_time, zero_times)
    /\ fpc' = "integrated"
    /\ UNCHANGED <<trainVars, hyperparams, call, h, odefunc_start_time,
                   zero_times, out, prev>>
    /\ UNCHANGED <<evalVars, jobVars>>

\* line 83: return self.decoder(hs)
ForwardDecode ==
    /\ fpc = "integrated"
    /\ out' = Decoder(hs)
    /\ fpc' = "returned"
    /\ UNCHANGED <<trainVars, hyperparams, call, h, odefunc_start_time,
                   zero_times, queries, hs, prev>>
    /\ UNCHANGED <<evalVars, jobVars>>

\* train() before its first step, for the specifications of the other parts
TrainIdle == TrainInit /\ num_epochs = 1

FwdIdle ==
    /\ hyperparams = [hidden_dims |-> 1, output_dims |-> 1, solver |-> "euler"]
    /\ fpc = "idle"
    /\ call = NoCall
    /\ h = NoState
    /\ odefunc_start_time = 0
    /\ zero_times = <<>>
    /\ queries = {}
    /\ hs = <<>>
    /\ out = <<>>
    /\ prev = NoPrev

(***************************************************************************)
(* The evaluator's loop over the test windows (src/test_in.py).  A window  *)
(* is one value: the tensor operations are elementwise.                    *)
(***************************************************************************)
\* test_data.num_windows
NumTestWindows == 2

\* means and standard deviations a Dataset can hold
StatsVals == [mean : {0, 1}, std : {1, 2}]
\* normalized values of a prediction or a target
NormVals == {0, 1}

\* x * data.infect_stds + data.infect_means
Denormalize(x, stats) == x * stats.std + stats.mean

\* torch.nn.MSELoss of one value
MseLoss(pred, gt) == (pred - gt) * (pred - gt)

\* -Normal(pred, 0.1).log_prob(gt), in units of 1/10000:
\* 50 (gt - pred)^2 + log(0.1 sqrt(2 pi))
MleLoss(pred, gt) == 500000 * (pred - gt) * (pred - gt) - 13837

\* most timestamps of a test window
MaxLength == 5

\* values of --drop_rate, in tenths: 0, 0.1, ..., 1
DropRates == 0..10

\* 1 - drop_rate in double precision: 1 - 0.8 is 0.19999999999999996 and
\* 1 - 0.9 is 0.09999999999999998, below 0.2 and 0.1; the other differences
\* are the doubles nearest to their decimal value, or above it
OneMinus(rate) == [tenths |-> 10 - rate, below |-> rate \in {8, 9}]

\* np.floor(original_length * x).astype(int) in double precision, for the
\* lengths bounded here (and for 100): a product that would be a whole
\* number with the decimal value of x stays below it when x is below its
\* decimal value; every other product has the floor of the exact one
FloorOfProduct(original_length, x) ==
    LET exact == (original_length * x.tenths) \div 10
    IN  IF x.below /\ (original_length * x.tenths) % 10 = 0
          THEN exact - 1
          ELSE exact

\* np.random.choice(original_length, num_to_keep, replace=False): the
\* samples it can draw, as sets
Choice(original_length, num_to_keep) ==
    {S \in SUBSET (0..(original_length - 1)) : Cardinality(S) = num_to_keep}

RECURSIVE sorted(_)
\* sorted(...) of a sample: its elements in ascending order
sorted(S) ==
    IF S = {} THEN <<>>
    ELSE LET top == CHOOSE x \in S : \A y \in S : y <= x
         IN  Append(sorted(S \ {top}), top)

\* the lists get_indexes_to_keep(original_length, drop_rate) can return
get_indexes_to_keep(original_length, rate) ==
    LET num_to_keep == FloorOfProduct(original_length, OneMinus(rate))
    IN  {sorted(S) : S \in Choice(original_length, num_to_keep)}

\* weather_window[indexes_to_keep], infect_window[indexes_to_keep]
TakeRows(rows, indexes) ==
    [j \in 1..Len(indexes) |-> rows[indexes[j] + 1]]

EvalInit ==
    /\ epc = "window"
    /\ drop_rate \in DropRates
    /\ gt_steps \in 1..MaxLength
    /\ indexes_to_keep = <<>>
    /\ eval_call = NoCall
    /\ eval_out = <<>>
    /\ train_stats \in StatsVals
    /\ test_stats \in StatsVals
    /\ test_i = 0
    /\ infect_hat = 0
    /\ gt_infect_window = 0
    /\ pred_infect = 0
    /\ gt_infect = 0
    /\ total_mse_loss = 0
    /\ total_mle_loss = 0

\* lines 121-129: the next test window, and the rows of it to keep
EvalKeep ==
    /\ epc = "window"
    /\ test_i < NumTestWindows
    /\ indexes_to_keep' \in get_indexes_to_keep(gt_steps, drop_rate)
    /\ eval_call' = [weather_window |->
                        TakeRows(WeatherRows(gt_steps), indexes_to_keep'),
                     infect_window |->
                        TakeRows(InfectRows(gt_steps), indexes_to_keep'),
                     time_window |-> TimeWindow(test_i * gt_steps, gt_steps),
                     h_init |-> 0, mask |-> 0]
    /\ eval_out' = <<>>
    /\ epc' = "call"
    /\ UNCHANGED <<train_stats, test_stats, test_i, infect_hat,
                   gt_infect_window, pred_infect, gt_infect, total_mse_loss,
                   total_mle_loss, drop_rate, gt_steps>>
    /\ UNCHANGED <<trainVars, fwdVars, jobVars>>

\* Model.forward on the arguments of the evaluator's call, test_data being
\* the live Dataset (line 95)
EvalForward(c) ==
    LET t == c.time_window
        h0 == Encoder(Flip(Cat(c.weather_window, c.infect_window)),
                      c.h_init, c.mask)
        zeroed == [k \in 1..Len(t) |-> t[k] - t[1]]
    IN  Decoder(LatentStates(h0, "test_data", t[1], zeroed))

\* lines 131-135: infect_hat = best_model(time_window, kept rows); a
\* one-entry time_window makes the call raise
EvalWindow ==
    /\ epc = "call"
    /\ IF Len(eval_call.time_window) = 1
         THEN /\ epc' = "raised"
              /\ UNCHANGED <<infect_hat, gt_infect_window, eval_call,
                             eval_out>>
         ELSE /\ \E h_init \in Draws, mask \in Draws :
                    /\ eval_call' = [eval_call EXCEPT !.h_init = h_init,
                                                      !.mask = mask]
                    /\ eval_out' = EvalForward(eval_call')
              /\ infect_hat' \in NormVals
              /\ gt_infect_window' \in NormVals
              /\ epc' = "denormalize"
    /\ UNCHANGED <<train_stats, test_stats, test_i, pred_infect, gt_infect,
                   total_mse_loss, total_mle_loss, drop_rate, gt_steps,
                   indexes_to_keep>>
    /\ UNCHANGED <<trainVars, fwdVars, jobVars>>

\* lines 138-141
EvalDenormalize ==
    /\ epc = "denormalize"
    /\ pred_infect' = Denormalize(infect_hat, train_stats)
    /\ gt_infect' = Denormalize(gt_infect_window, test_stats)
    /\ epc' = "losses"
    /\ UNCHANGED <<train_stats, test_stats, test_i, infect_hat,
                   gt_infect_window, total_mse_loss, total_mle_loss,
                   drop_rate, gt_steps, indexes_to_keep, eval_call,
                   eval_out>>
    /\ UNCHANGED <<trainVars, fwdVars, jobVars>>

\* lines 143-156
EvalLosses ==
    /\ epc = "losses"
    /\ total_mse_loss' = total_mse_loss + MseLoss(pred_infect, gt_infect)
    /\ total_mle_loss' = total_mle_loss + MleLoss(pred_infect, gt_infect)
    /\ test_i' = test_i + 1
    /\ epc' = "window"
    /\ UNCHANGED <<train_stats, test_stats, infect_hat, gt_infect_window,
                   pred_infect, gt_infect,
                   drop_rate, gt_steps, indexes_to_keep, eval_call,
                   eval_out>>
    /\ UNCHANGED <<trainVars, fwdVars, jobVars>>

\* lines 196-202: the averages are written once the windows are exhausted
EvalReport ==
    /\ epc = "window"
    /\ test_i >= NumTestWindows
    /\ epc' = "done"
    /\ UNCHANGED <<train_stats, test_stats, test_i, infect_hat,
                   gt_infect_window, pred_infect, gt_infect, total_mse_loss,
                   total_mle_loss,
                   drop_rate, gt_steps, indexes_to_keep, eval_call,
                   eval_out>>
    /\ UNCHANGED <<trainVars, fwdVars, jobVars>>

EvalIdle == EvalInit /\ train_stats = [mean |-> 0, std |-> 1]
                     /\ test_stats = [mean |-> 0, std |-> 1]
                     /\ drop_rate = 0
                     /\ gt_steps = 1

(***************************************************************************)
(* get_hyperparameters and get_job_id (src/train.py).  A learning rate is  *)
(* m/100 * 10^e with a three-digit m; the other floats are kept as the     *)
(* text repr() gives them, which is one-to-one.                            *)
(***************************************************************************)
LrVals == {[m |-> 300, e |-> -4], [m |-> 304, e |-> -4],
           [m |-> 996, e |-> -4], [m |-> 100, e |-> -3]}

\* the argument namespaces parse_args() can return
ArgVals ==
    [region : {"cr", "gx"}, solver : {"euler", "dopri5"}, lr : LrVals,
     encoder_fc_dims : {<<8, 16, 8>>}, hidden_dims : {3, 4},
     odefunc_fc_dims : {<<64, 64>>}, decoder_fc_dims : {<<8, 16, 8>>},
     window_length : {128}, num_epochs : {1},
     rtol : {"0.0001"}, atol : {"1e-06"}]

NoArgs == CHOOSE args \in ArgVals : TRUE

\* get_hyperparameters: the arguments, and the four fields it fixes
get_hyperparameters(args) ==
    [region |-> args.region, solver |-> args.solver, lr |-> args.lr,
     dropout_rate |-> "0.5", input_dims |-> 4, output_dims |-> OutputDims,
     encoder_fc_dims |-> args.encoder_fc_dims,
     hidden_dims |-> args.hidden_dims,
     odefunc_fc_dims |-> args.odefunc_fc_dims,
     decoder_fc_dims |-> args.decoder_fc_dims,
     std |-> "0.1", window_length |-> args.window_length,
     num_epochs |-> args.num_epochs, rtol |-> args.rtol, atol |-> args.atol]

\* f"{lr:.1e}": two significant digits and the exponent
Format1e(lr) ==
    LET digits == (lr.m + 5) \div 10
    IN  IF digits = 100 THEN [digits |-> 10, exp |-> lr.e + 1]
        ELSE [digits |-> digits, exp |-> lr.e]

\* get_job_id: the fields it formats, in its order
get_job_id(hp) ==
    <<hp.region, hp.solver, Format1e(hp.lr), hp.encoder_fc_dims,
      hp.hidden_dims, hp.odefunc_fc_dims, hp.decoder_fc_dims,
      hp.window_length, hp.num_epochs, hp.rtol, hp.atol>>

NoJobId == <<>>

JobInit ==
    /\ jpc = "args"
    /\ job_args \in [{1, 2} -> ArgVals]
    /\ job_hyperparams = [r \in {1, 2} |-> get_hyperparameters(NoArgs)]
    /\ job_ids = [r \in {1, 2} |-> NoJobId]

\* hyperparams = get_hyperparameters(parse_args()), in each of the two runs
ConfigureJobs ==
    /\ jpc = "args"
    /\ job_hyperparams' =
          [r \in {1, 2} |-> get_hyperparameters(job_args[r])]
    /\ jpc' = "configured"
    /\ UNCHANGED <<job_args, job_ids>>
    /\ UNCHANGED <<trainVars, fwdVars, evalVars>>

\* job_id = get_job_id(hyperparams), in each of the two runs
NameJobs ==
    /\ jpc = "configured"
    /\ job_ids' = [r \in {1, 2} |-> get_job_id(job_hyperparams[r])]
    /\ jpc' = "named"
    /\ UNCHANGED <<job_args, job_hyperparams>>
    /\ UNCHANGED <<trainVars, fwdVars, evalVars>>

JobIdle ==
    /\ jpc = "args"
    /\ job_args = [r \in {1, 2} |-> NoArgs]
    /\ job_hyperparams = [r \in {1, 2} |-> get_hyperparameters(NoArgs)]
    /\ job_ids = [r \in {1, 2} |-> NoJobId]

Init == TrainInit /\ FwdIdle /\ EvalIdle /\ JobIdle

Next ==
    \/ EpochHead
    \/ TrainHead
    \/ ZeroGrad
    \/ TrainForward
    \/ TrainLoss
    \/ Backward
    \/ OptimizerStep
    \/ TrainAvg
    \/ ValidInit
    \/ ValidHead
    \/ ValidSwap
    \/ ValidForward
    \/ ValidRestore
    \/ ValidLoss
    \/ ValidAvg
    \/ Checkpoint
    \/ Finish
    \/ ForwardRaises

Spec == Init /\ [][Next]_vars

ForwardInit == TrainIdle /\ FwdInit /\ EvalIdle /\ JobIdle

ForwardNext ==
    \/ AssignData
    \/ ForwardBegin
    \/ ForwardEncode
    \/ ForwardZeroTime
    \/ ForwardIntegrate
    \/ ForwardDecode

SpecForward == ForwardInit /\ [][ForwardNext]_vars

EvaluatorInit == TrainIdle /\ FwdIdle /\ EvalInit /\ JobIdle

EvaluatorNext ==
    \/ EvalKeep
    \/ EvalWindow
    \/ EvalDenormalize
    \/ EvalLosses
    \/ EvalReport

SpecEvaluator == EvaluatorInit /\ [][EvaluatorNext]_vars

JobIdInit == TrainIdle /\ FwdIdle /\ EvalIdle /\ JobInit

JobIdNext ==
    \/ ConfigureJobs
    \/ NameJobs

SpecJobId == JobIdInit /\ [][JobIdNext]_vars

(***************************************************************************)
(* The checkpoint decisions of lines 143 and 210-213 as a function of the  *)
(* sequence of per-epoch validation averages.                              *)
(***************************************************************************)
RECURSIVE LowestAfter(_)
\* lowest_valid_avg_loss after the epochs whose averages are avgs
LowestAfter(avgs) ==
    IF avgs = <<>> THEN None
    ELSE LET before == LowestAfter(SubSeq(avgs, 1, Len(avgs) - 1))
             last == avgs[Len(avgs)]
         IN  IF Improves(before, last) THEN last ELSE before

\* the epochs (from 0) at which torch.save runs
SaveEpochs(avgs) ==
    {e \in 0..(Len(avgs) - 1) :
        Improves(LowestAfter(SubSeq(avgs, 1, e)), avgs[e + 1])}

(***************************************************************************)
(* Helpers of the claims.                                                  *)
(***************************************************************************)
Range(s) == {s[n] : n \in 1..Len(s)}
Iota(n) == [k \in 1..n |-> k - 1]

RECURSIVE PyMin(_)
\* min(s) as Python computes it for a non-empty list: the first element,
\* replaced by each later element that compares < to it.  On a list without
\* NaN this is the least element.
PyMin(s) ==
    IF Len(s) = 1 THEN s[1]
    ELSE LET m == PyMin(SubSeq(s, 1, Len(s) - 1))
         IN  IF FLt(s[Len(s)], m) THEN s[Len(s)] ELSE m

\* epochs whose checkpoint decision has been taken
DecidedEpochs == 0..(epoch - 1)

C2_LiveDatasetDiscipline ==
    /\ odefunc_data \in {"train_data", "valid_data"}
    /\ \A n \in 1..Len(fwd_log) :
          fwd_log[n].data =
             (IF fwd_log[n].caller = "valid" THEN "valid_data" ELSE "train_data")
    /\ pc = "train_forward" => odefunc_data = "train_data"
    /\ pc = "valid_forward" => odefunc_data = "valid_data"
    /\ pc \notin {"valid_forward", "valid_restore", "raised"}
          => odefunc_data = "train_data"

\* a training forward call made in an epoch that follows a validation pass
C2_Witness ==
    /\ valid_passes >= 1
    /\ pc = "train_loss"
    /\ fwd_log # <<>>
    /\ fwd_log[Len(fwd_log)] =
          [caller |-> "train", window |-> i, data |-> "train_data"]

\* C3: a non-finite window loss never enters a running total or an average
C3_NonFiniteNeverAccumulated ==
    /\ IsFinite(train_total_loss)
    /\ IsFinite(valid_total_loss)
    /\ \A n \in 1..Len(all_train_avg_loss) : IsFinite(all_train_avg_loss[n])
    /\ \A n \in 1..Len(all_valid_avg_loss) : IsFinite(all_valid_avg_loss[n])

\* the operations of one training window, in the order of the source
WindowOrder == <<"zero_grad", "forward", "loss", "backward", "step">>

\* training windows whose optimizer step has been taken
WindowsStepped ==
    IF pc \in {"epoch_head", "done"}
      THEN epoch * NumTrainWindows
      ELSE epoch * NumTrainWindows + Len(train_seen)

\* C8: each training window is zeroed, forwarded, scored, backpropagated and
\* stepped in that order, one optimizer step per window, windows in Dataset
\* order; a run of E epochs over N windows ends after exactly E*N steps.
C8_StepPerWindowInOrder ==
    /\ Len(window_ops) <= Len(WindowOrder)
    /\ window_ops = SubSeq(WindowOrder, 1, Len(window_ops))
    /\ pc = "opt_step" => window_ops = SubSeq(WindowOrder, 1, 4)
    /\ train_seen = Iota(Len(train_seen))
    /\ opt_steps = WindowsStepped
    /\ pc = "done" => opt_steps = num_epochs * NumTrainWindows

\* a finished run of at least two epochs
C8_Witness ==
    /\ pc = "done"
    /\ num_epochs >= 2
    /\ opt_steps = num_epochs * NumTrainWindows

ValidationPcs ==
    {"valid_init", "valid_head", "valid_swap", "valid_forward",
     "valid_restore", "valid_loss", "valid_avg", "checkpoint"}

\* C9: one validation pass per epoch, after all training windows and before
\* the checkpoint decision, over every validation window once, with no
\* backward call and no optimizer step from the epoch's last training step
\* to the checkpoint decision.
C9_ValidationPassFrame ==
    /\ pc \in ValidationPcs =>
          /\ train_seen = Iota(NumTrainWindows)
          /\ opt_steps = (epoch + 1) * NumTrainWindows
          /\ backward_calls = (epoch + 1) * NumTrainWindows
          /\ grads = "computed"
    /\ pc \in ValidationPcs \ {"valid_avg", "checkpoint"} =>
          valid_passes = epoch
    /\ pc \in {"valid_avg", "checkpoint"} =>
          /\ valid_passes = epoch + 1
          /\ valid_seen = Iota(NumValidWindows)
          /\ fwd_log =
                [n \in 1..(NumTrainWindows + NumValidWindows) |->
                   IF n <= NumTrainWindows
                     THEN [caller |-> "train", window |-> n - 1,
                           data |-> "train_data"]
                     ELSE [caller |-> "valid",
                           window |-> n - 1 - NumTrainWindows,
                           data |-> "valid_data"]]
    /\ pc \in {"epoch_head", "done"} => valid_passes = epoch

\* the checkpoint decision of a later epoch
C9_Witness ==
    /\ pc = "checkpoint"
    /\ epoch >= 1
    /\ valid_seen = Iota(NumValidWindows)

C5_QueriesWithinWindow ==
    fpc \in {"integrated", "returned"} =>
       /\ zero_times = [k \in 1..Len(call.time_window) |->
                           call.time_window[k] - call.time_window[1]]
       /\ zero_times[1] = 0
       /\ \A q \in queries :
             /\ 0 <= q
             /\ q <= call.time_window[Len(call.time_window)]
                        - call.time_window[1]

\* two returned calls, one right after the other, with the same arguments
SameArguments ==
    /\ fpc = "returned"
    /\ prev.returned
    /\ prev.call.weather_window = call.weather_window
    /\ prev.call.infect_window = call.infect_window
    /\ prev.call.time_window = call.time_window

\* the Dataset that was live while the returned call integrated
LiveDuringCall == hs[1].data

C6_DenormalizedWithTrainingStats ==
    epc = "losses" =>
       /\ pred_infect = Denormalize(infect_hat, train_stats)
       /\ gt_infect = Denormalize(gt_infect_window, train_stats)

\* C7: two Hyperparameters records that differ in any field get different
\* job identifiers.
C7_JobIdInjective ==
    jpc = "named" =>
       (job_hyperparams[1] # job_hyperparams[2] => job_ids[1] # job_ids[2])

\* the evaluator has chosen the rows to keep of the window at hand
IndexesChosen == epc \in {"call", "denormalize", "losses"}

\* the kept indexes are pairwise distinct positions of the window in
\* ascending order, the model is given the rows at exactly those positions
\* and the whole time_window, and a returned call holds one prediction per
\* timestamp of the window
KeptRowsFullWindow ==
    /\ IndexesChosen =>
          /\ \A j \in 1..Len(indexes_to_keep) :
                indexes_to_keep[j] \in 0..(gt_steps - 1)
          /\ \A j \in 1..(Len(indexes_to_keep) - 1) :
                indexes_to_keep[j] < indexes_to_keep[j + 1]
          /\ drop_rate = 0 => indexes_to_keep = Iota(gt_steps)
          /\ eval_call.weather_window =
                [j \in 1..Len(indexes_to_keep) |->
                    WeatherRows(gt_steps)[indexes_to_keep[j] + 1]]
          /\ eval_call.infect_window =
                [j \in 1..Len(indexes_to_keep) |->
                    InfectRows(gt_steps)[indexes_to_keep[j] + 1]]
          /\ eval_call.time_window = TimeWindow(test_i * gt_steps, gt_steps)
    /\ epc \in {"denormalize", "losses"} =>
          /\ Len(eval_out) = gt_steps
          /\ \A k \in 1..gt_steps :
                eval_out[k].from.at = eval_call.time_window[k]

\* C11: get_indexes_to_keep(L, r) returns exactly floor(L * (1 - r))
\* pairwise distinct indexes of 0..L-1 in ascending order (all of them for
\* r = 0), the model is given the rows at those indexes with the whole
\* time_window, and predictions are produced for every timestamp.
C11_KeepsFloorOfShare ==
    /\ IndexesChosen =>
          Len(indexes_to_keep) = (gt_steps * (10 - drop_rate)) \div 10
    /\ KeptRowsFullWindow

\* the averages of the epochs completed so far are in the two lists, the
\* last one being the sum of that epoch's window losses over num_windows
AveragesOfCompletedEpochs ==
    /\ pc \in {"epoch_head", "done"} =>
          /\ Len(all_train_avg_loss) = epoch
          /\ Len(all_valid_avg_loss) = epoch
          /\ epoch >= 1 =>
                /\ all_train_avg_loss[epoch] =
                      FDiv(epoch_loss_sum.train, NumTrainWindows)
                /\ all_valid_avg_loss[epoch] =
                      FDiv(epoch_loss_sum.valid, NumValidWindows)
    /\ pc \in {"valid_init", "valid_head", "valid_swap", "valid_forward",
                "valid_restore", "valid_loss", "valid_avg"} =>
          /\ Len(all_train_avg_loss) = epoch + 1
          /\ Len(all_valid_avg_loss) = epoch
          /\ all_train_avg_loss[epoch + 1] =
                FDiv(epoch_loss_sum.train, NumTrainWindows)
    /\ pc = "checkpoint" =>
          /\ Len(all_train_avg_loss) = epoch + 1
          /\ Len(all_valid_avg_loss) = epoch + 1
          /\ all_valid_avg_loss[epoch + 1] =
                FDiv(epoch_loss_sum.valid, NumValidWindows)

\* a step keeps every entry the two lists already hold
EntriesKept ==
    /\ Len(all_train_avg_loss') >= Len(all_train_avg_loss)
    /\ Len(all_valid_avg_loss') >= Len(all_valid_avg_loss)
    /\ \A n \in 1..Len(all_train_avg_loss) :
          all_train_avg_loss'[n] = all_train_avg_loss[n]
    /\ \A n \in 1..Len(all_valid_avg_loss) :
          all_valid_avg_loss'[n] = all_valid_avg_loss[n]

\* C12: after epoch e completes each list holds e+1 entries; entry e is the
\* sum of the window losses of epoch e only, divided by the Dataset's
\* num_windows; entries of earlier epochs are never changed.
C12_PerEpochAverages == []AveragesOfCompletedEpochs /\ [][EntriesKept]_vars

\* a finished run whose first epoch had a positive finite validation
\* average and whose second epoch had only zero validation losses
C12_Witness ==
    /\ pc = "done"
    /\ epoch >= 2
    /\ IsFinite(all_valid_avg_loss[1])
    /\ all_valid_avg_loss[1] # Fin(0)
    /\ all_valid_avg_loss[2] = Fin(0)
    /\ Len(all_train_avg_loss) = epoch

\* positions of the validation averages that are numbers
NumberedEpochs(avgs) == {n \in 1..Len(avgs) : avgs[n] # NaN}

\* the first position holding the least of the averages that are numbers
EarliestLowest(avgs) ==
    CHOOSE n \in NumberedEpochs(avgs) :
       /\ \A m \in NumberedEpochs(avgs) : ~FLt(avgs[m], avgs[n])
       /\ \A m \in NumberedEpochs(avgs) : m < n => FLt(avgs[n], avgs[m])

\* C13: at the end of every epoch lowest_valid_avg_loss is the minimum of
\* the validation averages of the epochs completed so far, and the file
\* holds the model as it was at the end of the earliest epoch with that
\* minimum, also when some average is not a finite number.
C13_LowestIsMinimumSoFar ==
    (pc \in {"epoch_head", "done"} /\ epoch >= 1
        /\ NumberedEpochs(all_valid_avg_loss) # {}) =>
       LET best == EarliestLowest(all_valid_avg_loss)
       IN  /\ lowest_valid_avg_loss = all_valid_avg_loss[best]
           /\ model_file = [epoch |-> best - 1,
                            params |-> best * NumTrainWindows]

====
